---------------------------- MODULE Spec2Model ----------------------------
(***************************************************************************)
(* Model of scripts/local/clean_code.py: the content cleaner               *)
(* (clean_content), the directory walker / runner (process_directory) and  *)
(* the command-line entry point (__main__).                                *)
(*                                                                         *)
(* A text is a sequence of one-character strings.  Every regular           *)
(* expression of the source is modelled by an operator that computes, for  *)
(* a start index, the index of the last character of the match that        *)
(* Python's backtracking matcher finds there (0: no match); re.sub is the  *)
(* left-to-right scan Sub.                                                 *)
(***************************************************************************)
EXTENDS Integers, Sequences, FiniteSets, TLC

(***************************************************************************)
(* Characters and string primitives of Python used by the script.          *)
(***************************************************************************)

\* \s of the re module and the characters str.strip() removes
Whitespace == {" ", "\t", "\n", "\r", "\f"}

\* \w of the re module
WordChars ==
    {"a","b","c","d","e","f","g","h","i","j","k","l","m","n","o","p","q","r",
     "s","t","u","v","w","x","y","z",
     "A","B","C","D","E","F","G","H","I","J","K","L","M","N","O","P","Q","R",
     "S","T","U","V","W","X","Y","Z",
     "0","1","2","3","4","5","6","7","8","9","_"}

\* str.lower() on one character
LowerChar(c) ==
    CASE c = "A" -> "a" [] c = "B" -> "b" [] c = "C" -> "c" [] c = "D" -> "d"
      [] c = "E" -> "e" [] c = "F" -> "f" [] c = "G" -> "g" [] c = "H" -> "h"
      [] c = "I" -> "i" [] c = "J" -> "j" [] c = "K" -> "k" [] c = "L" -> "l"
      [] c = "M" -> "m" [] c = "N" -> "n" [] c = "O" -> "o" [] c = "P" -> "p"
      [] c = "Q" -> "q" [] c = "R" -> "r" [] c = "S" -> "s" [] c = "T" -> "t"
      [] c = "U" -> "u" [] c = "V" -> "v" [] c = "W" -> "w" [] c = "X" -> "x"
      [] c = "Y" -> "y" [] c = "Z" -> "z" [] OTHER -> c

\* str.lower()
lower(s) == [k \in 1..Len(s) |-> LowerChar(s[k])]

\* s[i:].startswith(p), i counted from 1
HasAt(s, i, p) ==
    /\ i >= 1
    /\ i + Len(p) - 1 <= Len(s)
    /\ \A k \in 1..Len(p) : s[i + k - 1] = p[k]

\* the least member of a set of indexes, 0 for the empty set
MinOrZero(S) == IF S = {} THEN 0 ELSE CHOOSE k \in S : \A j \in S : k <= j

\* the greatest member of a set of indexes, 0 for the empty set
MaxOrZero(S) == IF S = {} THEN 0 ELSE CHOOSE k \in S : \A j \in S : k >= j

\* the least k in lo..hi with P(k), 0 when there is none
First(lo, hi, P(_)) == MinOrZero({k \in lo..hi : P(k)})

\* the greatest k in lo..hi with P(k), 0 when there is none
Last(lo, hi, P(_)) == MaxOrZero({k \in lo..hi : P(k)})

\* k, or d when k is 0 (nothing was found)
OrElse(k, d) == IF k = 0 THEN d ELSE k

\* s.find(p, i): the first index >= i where p occurs in s, 0 when there is none
Find(s, p, i) == First(i, Len(s) - Len(p) + 1, LAMBDA k : HasAt(s, k, p))

\* p in s
Contains(s, p) == Find(s, p, 1) > 0

\* the first index >= i that holds no whitespace (Len(s) + 1 when all do): \s*
SkipWs(s, i) ==
    OrElse(First(i, Len(s), LAMBDA j : s[j] \notin Whitespace), Len(s) + 1)

\* the last index <= i that holds no whitespace (0 when all do)
SkipWsBack(s, i) == Last(1, i, LAMBDA j : s[j] \notin Whitespace)

\* str.strip()
strip(s) == SubSeq(s, SkipWs(s, 1), SkipWsBack(s, Len(s)))

\* s[n:], n counted from 0 as in Python
Drop(s, n) == SubSeq(s, n + 1, Len(s))

\* str.split('\n'); e is the index of the first newline of s
RECURSIVE Split(_), SplitAt(_, _)
SplitAt(s, e) ==
    IF e = 0 THEN <<s>>
    ELSE <<SubSeq(s, 1, e - 1)>> \o Split(Drop(s, e))

Split(s) == SplitAt(s, Find(s, <<"\n">>, 1))

\* '\n'.join(lines)
RECURSIVE Join(_)
Join(lines) ==
    IF Len(lines) = 0 THEN <<>>
    ELSE IF Len(lines) = 1 THEN lines[1]
    ELSE lines[1] \o <<"\n">> \o Join(Tail(lines))

(***************************************************************************)
(* The literals of the patterns.                                           *)
(***************************************************************************)
BlockOpen  == <<"/","*">>
BlockClose == <<"*","/">>
LineOpen   == <<"/","/">>
TwoNewlines == <<"\n","\n">>
CopyrightWord == <<"C","o","p","y","r","i","g","h","t">>
copyrightWord == <<"c","o","p","y","r","i","g","h","t">>
licenseWord   == <<"l","i","c","e","n","s","e">>

NSLogNames == { <<"N","S","L","o","g">> }
RJLogNames ==
    { <<"R","J","L","o","g">> \o lvl :
        lvl \in { <<"D","e","b","u","g">>, <<"I","n","f","o">>,
                  <<"W","a","r","n","i","n","g">>, <<"E","r","r","o","r">> } }
RJLoggerOpen == <<"[","R","J","L","o","g","g","e","r">>
AndroidLogNames ==
    { pre \o <<"L","o","g",".">> \o <<lvl>> :
        pre \in { <<>>, <<"a","n","d","r","o","i","d",".","u","t","i","l",".">> },
        lvl \in { "i", "d", "w", "e", "v" } }
LoggerNames ==
    { <<"L","o","g","g","e","r",".">> \o lvl :
        lvl \in { <<"d","e","b","u","g">>, <<"i","n","f","o">>,
                  <<"w","a","r","n","i","n","g">>, <<"e","r","r","o","r">> } }
PrintlnNames == { <<"p","r","i","n","t","l","n">> }
PrintStackTraceWord == <<".","p","r","i","n","t","S","t","a","c","k","T","r","a","c","e">>
ConsoleNames ==
    { <<"c","o","n","s","o","l","e",".">> \o m :
        m \in { <<"l","o","g">>, <<"w","a","r","n">>, <<"e","r","r","o","r">>,
                <<"d","e","b","u","g">>, <<"i","n","f","o">>,
                <<"t","r","a","c","e">>, <<"t","a","b","l","e">> } }

(***************************************************************************)
(* The regular expressions.  Each operator gives the index of the last     *)
(* character of the match starting at i, or 0.                             *)
(***************************************************************************)

\* (?:\s*;)? after a match that ends at e, m being the first index after e
\* that holds no whitespace
SemicolonAt(s, e, m) == IF m <= Len(s) /\ s[m] = ";" THEN m ELSE e

\* (?:\s*;)? after a match that ends at e: the optional statement terminator
OptSemicolon(s, e) == SemicolonAt(s, e, SkipWs(s, e + 1))

\* \)(?:\s*;)? where c is the index of the first ')' (0: there is none)
ArgsTo(s, c) == IF c = 0 THEN 0 ELSE OptSemicolon(s, c)

\* \(.*\)(?:\s*;)? at p: a greedy argument list, running to the last ')'
ArgsFromGreedy(s, p) ==
    IF p <= Len(s) /\ s[p] = "("
    THEN ArgsTo(s, Last(p + 1, Len(s), LAMBDA k : s[k] = ")"))
    ELSE 0

\* \(.*?\)(?:\s*;)? at p (DOTALL): the argument list runs to the first ')'
ArgsFrom(s, p) ==
    IF p <= Len(s) /\ s[p] = "(" THEN ArgsTo(s, Find(s, <<")">>, p + 1)) ELSE 0

\* \s*\(.*?\)(?:\s*;)? from index j on
CallTail(s, j) == ArgsFrom(s, SkipWs(s, j))

\* <one of names>\s*\(.*?\)(?:\s*;)? at i; no name is a prefix of another
NamedCall(names, s, i) ==
    IF \E n \in names : HasAt(s, i, n)
    THEN CallTail(s, i + Len(CHOOSE n \in names : HasAt(s, i, n)))
    ELSE 0

\* c + d for an index c that was found, 0 for c = 0
Shift(c, d) == IF c = 0 THEN 0 ELSE c + d

\* /\*.*?\*/ (DOTALL) at i
BlockComment(s, i) ==
    IF HasAt(s, i, BlockOpen) THEN Shift(Find(s, BlockClose, i + 2), 1) ELSE 0

\* the index of the last character of the line that holds index i
LineEnd(s, i) == OrElse(Find(s, <<"\n">>, i), Len(s) + 1) - 1

\* (?<![:"'/])//.* at i ('.' stops at a newline)
LineComment(s, i) ==
    IF /\ HasAt(s, i, LineOpen)
       /\ (i = 1 \/ s[i - 1] \notin {":", "\"", "'", "/"})
    THEN LineEnd(s, i + 1)
    ELSE 0

\* \]\s*\(.*?\)(?:\s*;)? at b (0: no such ']')
CallTailAfter(s, b) == IF b = 0 THEN 0 ELSE CallTail(s, b + 1)

\* .*?\]\s*\(.*?\)(?:\s*;)? from index j on: the lazy .*? runs to the first
\* ']' from which the rest of the pattern matches
RJLoggerCallFrom(s, j) ==
    CallTailAfter(s, First(j, Len(s),
                           LAMBDA k : s[k] = "]" /\ CallTail(s, k + 1) > 0))

\* \[RJLogger\s at i
RJLoggerAt(s, i) ==
    /\ HasAt(s, i, RJLoggerOpen)
    /\ i + Len(RJLoggerOpen) <= Len(s)
    /\ s[i + Len(RJLoggerOpen)] \in Whitespace

\* \[RJLogger\s+.*?\]\s*\(.*?\)(?:\s*;)? at i
RJLoggerCall(s, i) ==
    IF RJLoggerAt(s, i) THEN RJLoggerCallFrom(s, i + Len(RJLoggerOpen) + 1) ELSE 0

\* [^\]]+\](?:\s*;)? at q, b being the index of the first ']' from q on
MessageTo(s, q, b) == IF b > q THEN OptSemicolon(s, b) ELSE 0

\* \[RJLogger\s+[^\]]+\](?:\s*;)? at i
RJLoggerMessage(s, i) ==
    IF RJLoggerAt(s, i)
    THEN MessageTo(s, i + Len(RJLoggerOpen) + 1,
                   Find(s, <<"]">>, i + Len(RJLoggerOpen) + 1))
    ELSE 0

\* the index after the run of word characters that starts at i: \w+
SkipWord(s, i) ==
    OrElse(First(i, Len(s), LAMBDA j : s[j] \notin WordChars), Len(s) + 1)

\* \.printStackTrace\s*\(.*?\)(?:\s*;)? at r, after the \w+ that starts at i
TraceCall(s, i, r) ==
    IF r > i /\ HasAt(s, r, PrintStackTraceWord)
    THEN CallTail(s, r + Len(PrintStackTraceWord))
    ELSE 0

\* \w+\.printStackTrace\s*\(.*?\)(?:\s*;)? at i
PrintStackTrace(s, i) == TraceCall(s, i, SkipWord(s, i))

\* the index of the last newline of the whitespace run that starts at i
LastNewline(s, i) == Last(i, SkipWs(s, i) - 1, LAMBDA j : s[j] = "\n")

\* the number of newlines in s[i..j]
Newlines(s, i, j) == Cardinality({k \in i..j : s[k] = "\n"})

\* \n\s*\n\s*\n\s*\n+: a run matches only when it holds four newlines
BlankRunOfFour(s, i, e) == IF Newlines(s, i, e) >= 4 THEN e ELSE 0

\* a run from i to its last newline e matches when it holds three newlines
BlankRunTo(s, i, e) == IF Newlines(s, i, e) >= 3 THEN e ELSE 0

\* \n\s*\n\s*\n+ at i: a whitespace run that starts with a newline and holds at
\* least three; the greedy match ends at the run's last newline
BlankRun(s, i) ==
    IF i <= Len(s) /\ s[i] = "\n" THEN BlankRunTo(s, i, LastNewline(s, i)) ELSE 0

\* the patterns by name
MatchEnd(pat, s, i) ==
    CASE pat = "block"           -> BlockComment(s, i)
      [] pat = "line"            -> LineComment(s, i)
      [] pat = "NSLog"           -> NamedCall(NSLogNames, s, i)
      [] pat = "RJLog"           -> NamedCall(RJLogNames, s, i)
      [] pat = "RJLoggerCall"    -> RJLoggerCall(s, i)
      [] pat = "RJLoggerMessage" -> RJLoggerMessage(s, i)
      [] pat = "Log"             -> NamedCall(AndroidLogNames, s, i)
      [] pat = "Logger"          -> NamedCall(LoggerNames, s, i)
      [] pat = "println"         -> NamedCall(PrintlnNames, s, i)
      [] pat = "printStackTrace" -> PrintStackTrace(s, i)
      [] pat = "console"         -> NamedCall(ConsoleNames, s, i)
      [] pat = "blank"           -> BlankRun(s, i)

\* re.sub(pat, repl, s) from index i on: leftmost matches, left to right,
\* never overlapping (no pattern matches the empty text); m is the start of
\* the first match from i on
RECURSIVE Sub(_, _, _, _), SubAt(_, _, _, _, _)
SubAt(pat, repl, s, i, m) ==
    IF m = 0 THEN SubSeq(s, i, Len(s))
    ELSE SubSeq(s, i, m - 1) \o repl \o Sub(pat, repl, s, MatchEnd(pat, s, m) + 1)

Sub(pat, repl, s, i) ==
    SubAt(pat, repl, s, i, First(i, Len(s), LAMBDA k : MatchEnd(pat, s, k) > 0))

ios_logs     == <<"NSLog", "RJLog", "RJLoggerCall", "RJLoggerMessage">>
android_logs == <<"Log", "Logger", "println", "printStackTrace">>
web_logs     == <<"console">>
all_logs     == ios_logs \o android_logs \o web_logs

\* for pattern in all_logs: rest = re.sub(pattern, '', rest)
RECURSIVE RemoveLogs(_, _)
RemoveLogs(pats, s) ==
    IF Len(pats) = 0 THEN s
    ELSE RemoveLogs(Tail(pats), Sub(Head(pats), <<>>, s, 1))

(***************************************************************************)
(* clean_content                                                           *)
(***************************************************************************)

\* s[:e]
Prefix(s, e) == SubSeq(s, 1, e)

\* re.match(r'^\s*/\*.*?\*/', content, re.DOTALL): the matched text, <<>> when
\* there is no match (a match is never empty)
BlockMatch(content) == Prefix(content, BlockComment(content, SkipWs(content, 1)))

\* trimmed.startswith('//') or not trimmed
IsHeaderText(trimmed) == HasAt(trimmed, 1, LineOpen) \/ Len(trimmed) = 0

IsHeaderLine(line) == IsHeaderText(strip(line))

\* the loop over lines that collects header_lines until the first other line
RECURSIVE HeaderLines(_)
HeaderLines(lines) ==
    IF Len(lines) = 0 THEN <<>>
    ELSE IF IsHeaderLine(Head(lines)) THEN <<Head(lines)>> \o HeaderLines(Tail(lines))
    ELSE <<>>

\* the test that keeps a leading block comment as the header
BlockIsHeader(block) ==
    Contains(lower(block), CopyrightWord) \/ Contains(lower(block), licenseWord)

\* the test that keeps the leading run of // lines as the header
LinesAreHeader(combined) ==
    Contains(lower(combined), copyrightWord) \/ Contains(lower(combined), licenseWord)

\* the else branch: the leading // and blank lines, when they name a licence
LineHeader(combined) == IF LinesAreHeader(combined) THEN combined ELSE <<>>

\* the two branches on block_match
HeaderGiven(content, block) ==
    IF Len(block) > 0
    THEN IF BlockIsHeader(block) THEN block ELSE <<>>
    ELSE LineHeader(Join(HeaderLines(Split(content))))

\* step 1: the header ("" when none is kept)
ExtractHeader(content) == HeaderGiven(content, BlockMatch(content))

\* step 2: comments and logging calls removed from rest
StripComments(rest) == Sub("line", <<>>, Sub("block", <<>>, rest, 1), 1)

\* step 3: re.sub(r'\n\s*\n\s*\n+', '\n\n', rest)
CollapseBlank(rest) == Sub("blank", TwoNewlines, rest, 1)

\* the body: rest after the passes, stripped
CleanBody(rest) == strip(CollapseBlank(RemoveLogs(all_logs, StripComments(rest))))

\* return result + '\n': the result is not stripped first
ReassembleUnstripped(header, body) ==
    (IF Len(header) > 0 THEN header \o TwoNewlines \o body ELSE body)
      \o <<"\n">>

\* result = header + '\n\n' + rest if header else rest; return result.strip() + '\n'
Reassemble(header, body) ==
    strip(IF Len(header) > 0 THEN header \o TwoNewlines \o body ELSE body)
      \o <<"\n">>

\* the locals of clean_content when it returns
Locals(header, body) ==
    [header |-> header, body |-> body, result |-> Reassemble(header, body)]

CleanWithHeader(content, header) ==
    Locals(header, CleanBody(Drop(content, Len(header))))

CleanLocals(content, ext) == CleanWithHeader(content, ExtractHeader(content))

clean_content(content, ext) == CleanLocals(content, ext).result

\* the file extensions the runner processes
EXTENSIONS ==
    { <<".","s","w","i","f","t">>, <<".","m">>, <<".","h">>,
      <<".","k","t">>, <<".","j","a","v","a">>,
      <<".","t","s">>, <<".","t","s","x">>, <<".","j","s">>, <<".","j","s","x">> }

(***************************************************************************)
(* The inputs of the cleaner: texts put together from fragments.           *)
(***************************************************************************)
MaxFrags == 3
MaxGap   == 5
MaxArgs  == 2

TsExt   == <<".","t","s">>
FooStmt == <<"f","o","o","(",")",";">>
LicenseLine == <<"/","/"," ","l","i","c","e","n","s","e","\n">>

Fragments ==
    { <<"/","*"," ","C","o","p","y","r","i","g","h","t"," ","*","/">>,
      <<"/","*"," ","l","i","c","e","n","s","e"," ","*","/">>,
      LicenseLine,
      <<"\n">>, <<" ">>,
      FooStmt,
      <<"c","o","n","s","o","l","e",".","l","o","g","(","1",")",";">>,
      BlockOpen, BlockClose, LineOpen }

Statements == { FooStmt, <<"x"," ","="," ","1",";">> }

RECURSIVE Flatten(_)
Flatten(ss) == IF Len(ss) = 0 THEN <<>> ELSE Head(ss) \o Flatten(Tail(ss))

\* the sequences of at most n members of S
SeqsUpTo(S, n) == UNION { [1..k -> S] : k \in 0..n }

\* any text of at most MaxFrags fragments
GeneralInputs == { Flatten(fs) : fs \in SeqsUpTo(Fragments, MaxFrags) }

\* two statements with a gap of at most MaxGap newlines and spaces between
\* them, with or without a kept header in front
CollapseInputs ==
    { pre \o a \o gap \o b :
        pre \in { <<>>, LicenseLine }, a \in Statements, b \in Statements,
        gap \in SeqsUpTo({"\n", " "}, MaxGap) }

\* the names a logging call can have in a text
LogCallNames ==
    NSLogNames \cup RJLogNames \cup AndroidLogNames \cup LoggerNames
      \cup PrintlnNames \cup ConsoleNames
      \cup { <<"e">> \o PrintStackTraceWord,
             RJLoggerOpen \o <<" ","l","o","g","]">> }

\* every logging call with the argument x, followed by a statement
LogNameInputs == { n \o <<"(","x",")",";"," ">> \o FooStmt : n \in LogCallNames }

\* console.log with every argument list of at most MaxArgs of these characters
LogArgInputs ==
    { <<"c","o","n","s","o","l","e",".","l","o","g">> \o sp \o <<"(">> \o args
        \o <<")">> \o semi \o <<" ">> \o FooStmt :
        sp \in { <<>>, <<" ">> },
        args \in SeqsUpTo({"x", "/", "\"", " "}, MaxArgs),
        semi \in { <<>>, <<";">>, <<" ",";">> } }

\* the calls of clean_content: a text and an extension
CleanerInputs ==
    ((GeneralInputs \cup CollapseInputs \cup LogArgInputs) \X {TsExt})
      \cup (LogNameInputs \X EXTENSIONS)

(***************************************************************************)
(* The file tree the runner walks.  A file is a directory (the names below *)
(* TARGET_DIR, outermost first) and a name.                                *)
(***************************************************************************)
MaxFiles == 2

TARGET_DIR == <<"/", "p", "a", "c", "k", "a", "g", "e", "s">>

SrcDir == <<"s", "r", "c">>
BuildDir == <<"b", "u", "i", "l", "d">>
RebuildDir == <<"r", "e", "b", "u", "i", "l", "d">>
NodeModulesDir == <<"n", "o", "d", "e", "_", "m", "o", "d", "u", "l", "e", "s">>
GradleDir == <<".", "g", "r", "a", "d", "l", "e">>

ExcludedNames == {NodeModulesDir, BuildDir, GradleDir}

TsName == <<"a", ".", "t", "s">>
KtName == <<"B", ".", "K", "T">>
TxtName == <<"c", ".", "t", "x", "t">>

File(dir, name) == [dir |-> dir, name |-> name]

FileUniverse ==
    { File(<<SrcDir>>, TsName), File(<<SrcDir>>, KtName),
      File(<<SrcDir>>, TxtName), File(<<BuildDir>>, TsName),
      File(<<RebuildDir>>, TsName),
      File(<<SrcDir, NodeModulesDir>>, TsName),
      File(<<GradleDir>>, TsName) }

DirtyText ==
    <<"c", "o", "n", "s", "o", "l", "e", ".", "l", "o", "g", "(", "1", ")",
      ";", "\n">> \o FooStmt \o <<"\n">>
TidyText == FooStmt \o <<"\n">>
Texts == {DirtyText, TidyText}

Trees ==
    UNION { [fs -> Texts] :
            fs \in {S \in SUBSET FileUniverse : Cardinality(S) <= MaxFiles} }

Flags == {"--run", "--dry-run"}

\* what can go wrong with one file inside the try block
Faults == {"none", "read", "clean", "open", "write"}

(***************************************************************************)
(* process_directory and the script's entry point.                         *)
(***************************************************************************)
RECURSIVE JoinPath(_, _)
\* os.walk's root for a directory: the names joined with "/"
JoinPath(top, dir) ==
    IF dir = <<>> THEN top
    ELSE JoinPath(top \o <<"/">> \o Head(dir), Tail(dir))

Root(f) == JoinPath(TARGET_DIR, f.dir)

\* the directory filter: a substring test on the whole root path
IsSkipped(root) ==
    \/ Contains(root, NodeModulesDir)
    \/ Contains(root, BuildDir)
    \/ Contains(root, GradleDir)

\* os.path.splitext(file)[1]: from the last dot, unless only dots precede it
splitext(name) ==
    IF \E k \in 1..(Last(1, Len(name), LAMBDA d : name[d] = ".") - 1) :
           name[k] # "."
    THEN Drop(name, Last(1, Len(name), LAMBDA d : name[d] = ".") - 1)
    ELSE <<>>

FileExt(f) == lower(splitext(f.name))

IsProcessed(f) == FileExt(f) \in EXTENSIONS

\* argparse: --run is a store_true flag, --dry-run a store_true flag whose
\* default is already True
ParseArgs(given) == [run |-> "--run" \in given, dry_run |-> TRUE]

is_dry_run(args) == ~args.run

WriteWhenChanged(new, old, dryRun) == new # old

ShouldWrite(new, old, dryRun) == new # old /\ ~dryRun

\* no except clause: the exception leaves process_directory
AfterFileUncaught(fault) == IF fault = "none" THEN "files" ELSE "raised"

\* the except clause swallows the exception and the loop goes on
AfterFile(fault) == "files"

\* the open for writing is reached
OpensForWrite(new, old, dryRun, fault) ==
    ShouldWrite(new, old, dryRun) /\ fault \in {"none", "open", "write"}

Written(new, old, fault) ==
    IF fault = "none" THEN new ELSE IF fault = "write" THEN <<>> ELSE old

Report(f, new, old, dryRun, fault) ==
    IF fault # "none" THEN << <<"Error processing", f>> >>
    ELSE IF new = old THEN <<>>
    ELSE IF dryRun THEN << <<"[DRY RUN] Would clean", f>> >>
    ELSE << <<"Cleaned", f>> >>

(***************************************************************************)
(* State.                                                                  *)
(***************************************************************************)
VARIABLES
    pc,             \* where the program is
    content,        \* clean_content: the text passed in
    ext,            \* clean_content: the extension passed in
    cleaned,        \* clean_content: its locals header, body and result
    out2,           \* what clean_content returned for its own result
    argv,           \* the flags on the command line
    target_exists,  \* os.path.exists(TARGET_DIR)
    dry_run,        \* is_dry_run, passed to process_directory
    tree,           \* the files under TARGET_DIR when the script starts
    disk,           \* the files' contents now
    dirsLeft,       \* directories os.walk has not yielded yet
    filesLeft,      \* files of the current directory not yet looked at
    count,          \* process_directory's count
    stdout,         \* the lines printed
    reads,          \* files opened for reading
    writes,         \* files opened for writing
    faults          \* what went wrong with each file

cleanerVars == <<content, ext, cleaned, out2>>
walkVars == <<dirsLeft, filesLeft>>
fileVars == <<disk, count, reads, writes, faults>>
runnerVars == <<argv, target_exists, dry_run, tree, walkVars, fileVars, stdout>>
vars == <<pc, cleanerVars, runnerVars>>

CleanerIdle ==
    /\ content = <<>>
    /\ ext = <<>>
    /\ cleaned = Locals(<<>>, <<>>)
    /\ out2 = <<>>

RunnerIdle ==
    /\ argv = {}
    /\ target_exists = TRUE
    /\ dry_run = TRUE
    /\ tree = <<>>
    /\ disk = <<>>
    /\ dirsLeft = {}
    /\ filesLeft = {}
    /\ count = 0
    /\ stdout = <<>>
    /\ reads = {}
    /\ writes = {}
    /\ faults = <<>>

(***************************************************************************)
(* The cleaner called on one text, and called again on its own output.     *)
(***************************************************************************)
CleanerInit ==
    /\ pc = "input"
    /\ \E in \in CleanerInputs : content = in[1] /\ ext = in[2]
    /\ cleaned = Locals(<<>>, <<>>)
    /\ out2 = <<>>
    /\ RunnerIdle

Clean ==
    /\ pc = "input"
    /\ cleaned' = CleanLocals(content, ext)
    /\ pc' = "cleaned"
    /\ UNCHANGED <<content, ext, out2, runnerVars>>

Reclean ==
    /\ pc = "cleaned"
    /\ out2' = clean_content(cleaned.result, ext)
    /\ pc' = "recleaned"
    /\ UNCHANGED <<content, ext, cleaned, runnerVars>>

SpecClean == CleanerInit /\ [][Clean]_vars

RecleanNext == Clean \/ Reclean
SpecReclean == CleanerInit /\ [][RecleanNext]_vars

(***************************************************************************)
(* The script run on a tree.                                               *)
(***************************************************************************)
Init ==
    /\ pc = "start"
    /\ CleanerIdle
    /\ argv \in SUBSET Flags
    /\ target_exists \in BOOLEAN
    /\ dry_run = TRUE
    /\ tree \in Trees
    /\ disk = tree
    /\ dirsLeft = {f.dir : f \in DOMAIN tree}
    /\ filesLeft = {}
    /\ count = 0
    /\ stdout = <<>>
    /\ reads = {}
    /\ writes = {}
    /\ faults = [f \in DOMAIN tree |-> "none"]

\* the entry point, up to the call of process_directory
Main ==
    /\ pc = "start"
    /\ IF ~target_exists
       THEN /\ stdout' = << <<"Error: Target directory does not exist">> >>
            /\ pc' = "exit"
            /\ UNCHANGED dry_run
       ELSE /\ dry_run' = is_dry_run(ParseArgs(argv))
            /\ stdout' = << <<"Starting cleaning", is_dry_run(ParseArgs(argv))>> >>
            /\ pc' = "walk"
    /\ UNCHANGED <<cleanerVars, argv, target_exists, tree, walkVars, fileVars>>

\* os.walk yields a directory the filter rejects
SkipDir ==
    /\ pc = "walk"
    /\ \E d \in dirsLeft :
        /\ IsSkipped(JoinPath(TARGET_DIR, d))
        /\ dirsLeft' = dirsLeft \ {d}
    /\ UNCHANGED <<pc, cleanerVars, argv, target_exists, dry_run, tree,
                   filesLeft, fileVars, stdout>>

\* os.walk yields a directory the filter lets through
EnterDir ==
    /\ pc = "walk"
    /\ \E d \in dirsLeft :
        /\ ~IsSkipped(JoinPath(TARGET_DIR, d))
        /\ dirsLeft' = dirsLeft \ {d}
        /\ filesLeft' = {f \in DOMAIN tree : f.dir = d}
    /\ pc' = "files"
    /\ UNCHANGED <<cleanerVars, argv, target_exists, dry_run, tree,
                   fileVars, stdout>>

\* a file whose extension is not in EXTENSIONS
IgnoreFile ==
    /\ pc = "files"
    /\ \E f \in filesLeft :
        /\ ~IsProcessed(f)
        /\ filesLeft' = filesLeft \ {f}
    /\ UNCHANGED <<pc, cleanerVars, argv, target_exists, dry_run, tree,
                   dirsLeft, fileVars, stdout>>

\* the try block for file f, given what clean_content returns for it
Process(f, fault, new) ==
    /\ fault \in {"open", "write"} => ShouldWrite(new, disk[f], dry_run)
    /\ reads' = reads \cup {f}
    /\ faults' = [faults EXCEPT ![f] = fault]
    /\ writes' = IF OpensForWrite(new, disk[f], dry_run, fault)
                 THEN writes \cup {f} ELSE writes
    /\ disk' = IF OpensForWrite(new, disk[f], dry_run, fault)
               THEN [disk EXCEPT ![f] = Written(new, disk[f], fault)]
               ELSE disk
    /\ stdout' = stdout \o Report(f, new, disk[f], dry_run, fault)
    /\ count' = IF fault = "none" /\ new # disk[f] THEN count + 1 ELSE count
    /\ filesLeft' = filesLeft \ {f}
    /\ pc' = AfterFile(fault)

ProcessFile ==
    /\ pc = "files"
    /\ \E f \in filesLeft :
        /\ IsProcessed(f)
        /\ \E fault \in Faults :
            Process(f, fault, clean_content(disk[f], FileExt(f)))
    /\ UNCHANGED <<cleanerVars, argv, target_exists, dry_run, tree, dirsLeft>>

\* the inner loop is over: back to os.walk
LeaveDir ==
    /\ pc = "files"
    /\ filesLeft = {}
    /\ pc' = "walk"
    /\ UNCHANGED <<cleanerVars, runnerVars>>

\* os.walk is exhausted: the summary line
Summary ==
    /\ pc = "walk"
    /\ dirsLeft = {}
    /\ stdout' = Append(stdout, <<"Total files", count, dry_run>>)
    /\ pc' = "done"
    /\ UNCHANGED <<cleanerVars, argv, target_exists, dry_run, tree,
                   walkVars, fileVars>>

Next ==
    \/ Main
    \/ SkipDir
    \/ EnterDir
    \/ IgnoreFile
    \/ ProcessFile
    \/ LeaveDir
    \/ Summary

Spec == Init /\ [][Next]_vars

(***************************************************************************)
(* The properties of clean_content.                                        *)
(***************************************************************************)

\* C2: cleaning the cleaner's own output gives that output back, for every
\* text and every extension
Idempotent == pc = "recleaned" => out2 = cleaned.result

\* the block comment the text begins with (empty: it begins with none)
LeadingBlock(text) == strip(BlockMatch(text))

\* C3: when the text begins with a block comment that holds the word
\* Copyright, the output's first non-blank span is that block comment,
\* character for character
CopyrightBlockKept ==
    pc = "cleaned" /\ Contains(LeadingBlock(content), CopyrightWord)
      => HasAt(cleaned.result, SkipWs(cleaned.result, 1), LeadingBlock(content))

\* C4: the output ends with exactly one newline: its last character is a
\* newline and the character before it, if there is one, is not
TrailingNewline ==
    pc = "cleaned"
      => /\ Len(cleaned.result) >= 1
         /\ cleaned.result[Len(cleaned.result)] = "\n"
         /\ Len(cleaned.result) >= 2
              => cleaned.result[Len(cleaned.result) - 1] # "\n"

\* a text that is nothing but a kept header and removed comments
TrailingNewlineWitness ==
    /\ pc = "cleaned"
    /\ content = LicenseLine \o BlockOpen \o BlockClose
    /\ Len(cleaned.header) > 0
    /\ cleaned.body = <<>>
    /\ cleaned.result = <<"/","/"," ","l","i","c","e","n","s","e","\n">>

\* the names by which the patterns recognise a logging call
LogNameCores ==
    NSLogNames \cup RJLogNames \cup AndroidLogNames \cup LoggerNames
      \cup PrintlnNames \cup ConsoleNames
      \cup { PrintStackTraceWord, RJLoggerOpen }

\* the index of the ')' that closes the call of name at i (0: text has no
\* call of name at i followed by "(", an argument list without ')' and ')')
CallClose(text, name, i) ==
    IF /\ i > 0
       /\ SkipWs(text, i + Len(name)) <= Len(text)
       /\ text[SkipWs(text, i + Len(name))] = "("
    THEN Find(text, <<")">>, SkipWs(text, i + Len(name)) + 1)
    ELSE 0

\* text holds a call of name, and the statement foo(); after it
CallThenStatement(text, name) ==
    /\ CallClose(text, name, Find(text, name, 1)) > 0
    /\ Find(text, FooStmt, CallClose(text, name, Find(text, name, 1)) + 1) > 0

\* text without its characters i..e
Cut(text, i, e) == Prefix(text, i - 1) \o Drop(text, e)

\* the call of name at i, closed at c, is the only logging-call name in text,
\* also once the call is cut out
OnlyCall(text, name, i, c) ==
    \A n \in LogNameCores :
        /\ \A k \in 1..Len(text) :
               HasAt(text, k, n) => k >= i /\ k + Len(n) <= i + Len(name)
        /\ ~Contains(Cut(text, i, OptSemicolon(text, c)), n)

Removed(name) ==
    /\ ~Contains(cleaned.result, name)
    /\ Contains(cleaned.result, FooStmt)
    /\ \A e \in EXTENSIONS : clean_content(content, e) = cleaned.result

\* C8 as stated: when a text with no kept header holds a logging call whose
\* argument list has no ')' and a statement after it, the output lacks the
\* call's name and holds the statement, whatever the extension
LogCallRemovedAlways ==
    pc = "cleaned" /\ Len(cleaned.header) = 0
      => \A name \in LogCallNames :
             CallThenStatement(content, name) => Removed(name)

\* C8: when a text with no comment opener (// or /*) holds a logging call
\* whose argument list has no ')' and a statement after it, the call's name
\* is the only logging-call name in the text, and cutting the call out joins
\* the text around it into none, then the output lacks the call's name and
\* holds the statement, whatever the extension
LogCallRemoved ==
    pc = "cleaned" /\ Len(cleaned.header) = 0
      /\ ~Contains(content, LineOpen) /\ ~Contains(content, BlockOpen)
      => \A name \in LogCallNames :
             /\ CallThenStatement(content, name)
             /\ OnlyCall(content, name, Find(content, name, 1),
                         CallClose(content, name, Find(content, name, 1)))
             => Removed(name)

\* a console call in a Swift file
LogCallRemovedWitness ==
    /\ pc = "cleaned"
    /\ ext = <<".","s","w","i","f","t">>
    /\ content = <<"c","o","n","s","o","l","e",".","l","o","g","(","x",")",
                   ";"," ">> \o FooStmt
    /\ cleaned.result = FooStmt \o <<"\n">>

\* the text between a leading a and a trailing b of s
Between(s, a, b) == SubSeq(s, Len(a) + 1, Len(s) - Len(b))

\* s is a, then whitespace, then b
IsGapped(s, a, b) ==
    /\ Len(s) >= Len(a) + Len(b)
    /\ HasAt(s, 1, a)
    /\ HasAt(s, Len(s) - Len(b) + 1, b)
    /\ \A k \in (Len(a) + 1)..(Len(s) - Len(b)) : s[k] \in Whitespace

\* the text after the header, as the passes leave it when they remove nothing
Rest(text) == strip(Drop(text, Len(cleaned.header)))

\* C9: two statements separated by three or more blank lines (empty or
\* whitespace only) come out with exactly one blank line between them, and
\* the body of the output never holds three newlines in a row
BlankLinesCollapsed ==
    pc = "cleaned"
      => /\ ~Contains(cleaned.body, <<"\n","\n","\n">>)
         /\ \A a \in Statements, b \in Statements :
              /\ IsGapped(Rest(content), a, b)
              /\ Newlines(Rest(content), 1, Len(Rest(content))) >= 4
              => /\ IsGapped(cleaned.body, a, b)
                 /\ Newlines(cleaned.body, 1, Len(cleaned.body)) = 2
                 /\ Contains(Between(cleaned.body, a, b), TwoNewlines)

\* three blank lines, one of them holding a space, between two statements
BlankLinesCollapsedWitness ==
    /\ pc = "cleaned"
    /\ content = FooStmt \o <<"\n","\n"," ","\n","\n">> \o FooStmt
    /\ cleaned.body = FooStmt \o TwoNewlines \o FooStmt

\* C10: when a header is kept and the body is not empty, the output is the
\* header's lines, two newlines, the trimmed body and one newline: exactly
\* one blank line separates the header's last line from the body's first
ReassembledExactly ==
    pc = "cleaned" /\ Len(cleaned.header) > 0 /\ Len(cleaned.body) > 0
      => cleaned.result
           = strip(cleaned.header) \o TwoNewlines \o cleaned.body \o <<"\n">>

(***************************************************************************)
(* The properties of the runner.                                           *)
(***************************************************************************)

\* C1: in a dry run no file is opened for writing and every file holds what
\* it held when the run began
DryRunWritesNothing == dry_run => writes = {} /\ disk = tree

\* a finished dry run over a file that would be cleaned and a file whose
\* processing raised
DryRunWritesNothingWitness ==
    /\ pc = "done"
    /\ dry_run
    /\ count = 1
    /\ \E f \in DOMAIN tree : faults[f] = "clean"

\* the files the walk hands to the try block
Handled(f) == ~IsSkipped(Root(f)) /\ IsProcessed(f)

\* what the run leaves of a handled file
FileOutcome(f) ==
    /\ f \in reads
    /\ faults[f] # "none"
         => \E k \in 1..Len(stdout) : stdout[k] = <<"Error processing", f>>
    /\ faults[f] = "none"
         => disk[f] = IF dry_run THEN tree[f]
                      ELSE clean_content(tree[f], FileExt(f))

\* the run has a next step: the entry point, a step of the walk, the summary,
\* or the try block for a file of the current directory
CanGoOn ==
    \/ ENABLED (Main \/ SkipDir \/ EnterDir \/ IgnoreFile \/ LeaveDir \/ Summary)
    \/ pc = "files" /\ \E f \in filesLeft : IsProcessed(f)

\* C5: whatever read, clean or write raises, the run goes on: it stops only
\* after the summary line (or at once, when the target is missing), every
\* file that failed has its diagnostic, and every other handled file was
\* read, cleaned and, in a real run, holds its cleaned text
FailureIsolated ==
    /\ pc \notin {"exit", "done"} => CanGoOn
    /\ pc = "done"
         => /\ stdout[Len(stdout)] = <<"Total files", count, dry_run>>
            /\ \A f \in DOMAIN tree : Handled(f) => FileOutcome(f)

\* a real run in which one file's write raised and another file was cleaned
FailureIsolatedWitness ==
    /\ pc = "done"
    /\ ~dry_run
    /\ Len(stdout) = 4
    /\ \E f \in DOMAIN tree, g \in DOMAIN tree :
        /\ stdout[2] = <<"Error processing", f>>
        /\ faults[f] = "write"
        /\ stdout[3] = <<"Cleaned", g>>
        /\ disk[g] = TidyText

\* one of the directories on the file's path is named as an excluded one
HasExcludedSegment(f) == \E k \in 1..Len(f.dir) : f.dir[k] \in ExcludedNames

\* C6: a file is read exactly when its extension, lower-cased, is in
\* EXTENSIONS and no directory on its path is named node_modules, build or
\* .gradle; no other file is read or written
CandidatesExactlyRead ==
    pc = "done"
      => /\ \A f \in DOMAIN tree :
               f \in reads <=> IsProcessed(f) /\ ~HasExcludedSegment(f)
         /\ writes \subseteq reads

\* C7: once the mode is chosen, a run given --dry-run, or not given --run, is
\* a dry run and writes no file
DryRunWhenRequested ==
    pc \in {"walk", "files", "done"} /\ ("--dry-run" \in argv \/ "--run" \notin argv)
      => dry_run /\ writes = {} /\ disk = tree

=============================================================================
